---- MODULE Spec2Model ----
(***************************************************************************)
(* A model of jsnake: the signal class of jsnake/signals.py (an observer   *)
(* list with bound arguments) and binary_search of jsnake/utils.py.        *)
(*                                                                         *)
(* Python values are modelled as follows.  A positional argument tuple is  *)
(* a sequence of strings.  A keyword dictionary is a set of <<key, value>> *)
(* pairs with at most one pair per key.  An entry of signal.observers is a *)
(* record: bind = TRUE for the tuple (fn, args, kw) that connect stores    *)
(* for a callable, bind = FALSE for a bare object stored as it is.         *)
(***************************************************************************)
EXTENDS Integers, Sequences, FiniteSets

VARIABLES
    name,            \* signal.name
    obj,             \* signal.obj, the owner
    observers,       \* signal.observers
    observer_count,  \* signal.observer_count
    data,            \* the value recorded by the recording subscriber
    result,          \* the last call made on the signal and its outcome
    array,           \* binary_search: the array argument
    pattern,         \* binary_search: the pattern argument
    low,             \* binary_search: local low
    high,            \* binary_search: local high
    res,             \* binary_search: local res / the returned value
    pc,              \* binary_search: position in the function
    calling,         \* the call under way on one of the other classes and functions
    ret,             \* the outcome of that call
    rdict,           \* the contents of a readonly_dict
    items,           \* the items of an ExListbox
    initialized,     \* jsnake.logging._initialized
    rootLogger,      \* jsnake.logging._rootLogger: the name of the logger
    cache,           \* jsnake.logging._cache
    DEFAULT_LEVEL,   \* jsnake.logging.DEFAULT_LEVEL
    loggers,         \* the loggers of Python's logging module, by name
    dlg,             \* an ExDialog: its fields and the state of its window
    trace,           \* the methods run on the dialog, in order
    dpc,             \* the position in ExDialog.ok / ExDialog.cancel
    widget,          \* the state of the widget an InState works on
    ctx,             \* the fields of the InState object
    ipc              \* the position around the with-block

sigvars == <<name, obj, observers, observer_count, data, result>>
bsvars == <<array, pattern, low, high, res, pc>>
auxvars == <<calling, ret, rdict, items>>
extvars == <<initialized, rootLogger, cache, DEFAULT_LEVEL, loggers,
             dlg, trace, dpc, widget, ctx, ipc>>
vars == <<name, obj, observers, observer_count, data, result,
          array, pattern, low, high, res, pc, calling, ret, rdict, items,
          initialized, rootLogger, cache, DEFAULT_LEVEL, loggers,
          dlg, trace, dpc, widget, ctx, ipc>>

\* the logging module as imported and not initialised, no dialog, no InState
ExtIdle ==
    /\ initialized = FALSE
    /\ rootLogger = <<>>
    /\ cache = {}
    /\ DEFAULT_LEVEL = "INFO"
    /\ loggers = {}
    /\ dlg = [parent |-> "None", initial_focus |-> "None", alive |-> FALSE,
              withdrawn |-> FALSE, focus |-> "None"]
    /\ trace = <<>>
    /\ dpc = "idle"
    /\ widget = "normal"
    /\ ctx = [state_spec |-> "None", old_state |-> "None"]
    /\ ipc = "idle"

(***************************************************************************)
(* Bounds of the model.                                                    *)
(***************************************************************************)
\* connect is offered while fewer than MaxObservers entries are registered
MaxObservers == 3
\* binary_search arrays have at most MaxLen elements
MaxLen == 7
\* binary_search array elements are drawn from 1..MaxVal
MaxVal == 4

(***************************************************************************)
(* The subscribers of the model.                                           *)
(*   "record"  a function that stores its first emitted argument, as       *)
(*             _on_animal_fed of the test does;                            *)
(*   "noop"    a function that does nothing;                               *)
(*   "boom"    a function that raises RuntimeError;                        *)
(*   "quitter" a function that disconnects itself from the signal;         *)
(*   "watcher" an object with an on_notify method;                         *)
(*   "int4"    the integer 4: not callable, no on_notify method.           *)
(***************************************************************************)
Callables == {"record", "noop", "boom", "quitter"}
Notifiables == {"watcher"}
Plain == {"int4"}
Subscribers == Callables \cup Notifiables \cup Plain

NoKw == {}
NoArgs == <<>>

\* callable(obj_or_func)
IsCallable(s) == s \in Callables

\* hasattr(obv, "on_notify"): what the attribute lookup of line 147 needs
HasOnNotify(s) == s \in Notifiables

\* dict.update: the pairs of skw replace those of kw with the same key
DictUpdate(kw, skw) ==
    {p \in kw : \A q \in skw : q[1] # p[1]} \cup skw

\* signal._form_signal_bind
FormSignalBind(fn, args, kw) == [bind |-> TRUE, fn |-> fn, args |-> args, kw |-> kw]

\* a non-callable object stored in the list as it is
BareObserver(o) == [bind |-> FALSE, fn |-> o, args |-> NoArgs, kw |-> NoKw]

\* signal._is_signal_bind: isinstance(arg, tuple)
IsSignalBind(arg) == arg.bind

\* the entry connect appends and disconnect looks for
EntryFor(s, binds, kw) ==
    IF IsCallable(s) THEN FormSignalBind(s, binds, kw) ELSE BareObserver(s)

(***************************************************************************)
(* The inputs the model draws.                                             *)
(***************************************************************************)
ConnectInputs ==
    { <<"record", NoArgs, NoKw>>,
      <<"record", <<"b1">>, {<<"k", "v1">>}>>,
      <<"noop", <<"b2">>, {<<"j", "v2">>}>>,
      <<"noop", NoArgs, NoKw>>,
      <<"boom", NoArgs, NoKw>>,
      <<"watcher", NoArgs, NoKw>>,
      <<"int4", NoArgs, NoKw>> }

EmitInputs ==
    { <<NoArgs, NoKw>>,
      <<(<<"dog">>), NoKw>>,
      <<(<<"cat">>), {<<"k", "e1">>}>> }

(***************************************************************************)
(* signal.__init__ with an explicit owner, as the test constructs it:      *)
(* signal("fed", self).                                                    *)
(***************************************************************************)
SignalInit(nm, owner) ==
    [name |-> nm, observers |-> <<>>, observer_count |-> 0, obj |-> owner]

\* the call recorded in result: which method, its arguments, its outcome and,
\* for emit, the invocations it made, in order
Outcome(op, fn, args, kw, exc, calls) ==
    [op |-> op, fn |-> fn, args |-> args, kw |-> kw, exc |-> exc, calls |-> calls]

(***************************************************************************)
(* signal.connect                                                          *)
(***************************************************************************)
ConnectEffectNoCount(obs, cnt, s, binds, kw) ==
    [observers |-> Append(obs, EntryFor(s, binds, kw)),
     observer_count |-> IF IsCallable(s) THEN cnt + 1 ELSE cnt,
     exc |-> "none"]

\* lines 93-99: append the bind or the object, then count it
ConnectEffect(obs, cnt, s, binds, kw) ==
    [observers |-> Append(obs, EntryFor(s, binds, kw)),
     observer_count |-> cnt + 1,
     exc |-> "none"]

Connect ==
    /\ Len(observers) < MaxObservers
    /\ \E in \in ConnectInputs :
         LET e == ConnectEffect(observers, observer_count, in[1], in[2], in[3]) IN
           /\ observers' = e.observers
           /\ observer_count' = e.observer_count
           /\ result' = Outcome("connect", in[1], in[2], in[3], e.exc, <<>>)
    /\ UNCHANGED <<name, obj, data>>
    /\ UNCHANGED bsvars
    /\ UNCHANGED extvars
    /\ UNCHANGED auxvars

(***************************************************************************)
(* signal.disconnect                                                       *)
(***************************************************************************)
\* the least index of an element of list equal to x, 0 when there is none
FirstIndex(list, x) ==
    IF \E i \in 1..Len(list) : list[i] = x
    THEN CHOOSE i \in 1..Len(list) :
           /\ list[i] = x
           /\ \A j \in 1..(i-1) : list[j] # x
    ELSE 0

RemoveAt(list, i) == SubSeq(list, 1, i-1) \o SubSeq(list, i+1, Len(list))

ListRemoveLast(list, x) ==
    IF Len(list) = 0
    THEN [list |-> list, exc |-> "ValueError"]
    ELSE [list |-> RemoveAt(list, Len(list)), exc |-> "none"]

ListRemoveQuiet(list, x) ==
    IF FirstIndex(list, x) = 0
    THEN [list |-> list, exc |-> "none"]
    ELSE [list |-> RemoveAt(list, FirstIndex(list, x)), exc |-> "none"]

ListRemoveAll(list, x) ==
    IF FirstIndex(list, x) = 0
    THEN [list |-> list, exc |-> "ValueError"]
    ELSE [list |-> SelectSeq(list, LAMBDA e : e # x), exc |-> "none"]

\* list.remove(x): removes the first element equal to x, ValueError when none is
ListRemove(list, x) ==
    IF FirstIndex(list, x) = 0
    THEN [list |-> list, exc |-> "ValueError"]
    ELSE [list |-> RemoveAt(list, FirstIndex(list, x)), exc |-> "none"]

\* lines 114-120: remove the bind or the object; the count is decremented only
\* when remove returned
DisconnectEffect(obs, cnt, s, binds, kw) ==
    LET r == ListRemove(obs, EntryFor(s, binds, kw)) IN
      [observers |-> r.list,
       observer_count |-> IF r.exc = "none" THEN cnt - 1 ELSE cnt,
       exc |-> r.exc]

Disconnect ==
    /\ \E in \in ConnectInputs :
         LET e == DisconnectEffect(observers, observer_count, in[1], in[2], in[3]) IN
           /\ observers' = e.observers
           /\ observer_count' = e.observer_count
           /\ result' = Outcome("disconnect", in[1], in[2], in[3], e.exc, <<>>)
    /\ UNCHANGED <<name, obj, data>>
    /\ UNCHANGED bsvars
    /\ UNCHANGED extvars
    /\ UNCHANGED auxvars

(***************************************************************************)
(* signal.emit                                                             *)
(***************************************************************************)
\* one invocation made by emit: the index of the entry it was made for, the
\* subscriber, how it was invoked, and the arguments it received
Call(i, target, how, pos, kw) ==
    [idx |-> i, target |-> target, how |-> how, pos |-> pos, kw |-> kw]

\* the body of a subscriber, run on the state st emit works on: "record"
\* stores args[0] of its (obj, *args, **kw) when there is one, "boom" raises,
\* "quitter" calls disconnect(quitter) on the signal, every other subscriber
\* returns without an effect
SubscriberBody(call, st) ==
    LET st1 == [st EXCEPT !.calls = Append(@, call),
                          !.data = IF call.target = "record" /\ Len(call.pos) >= 2
                                   THEN call.pos[2] ELSE @,
                          !.exc = IF call.target = "boom" THEN "RuntimeError" ELSE @]
        d == DisconnectEffect(st1.observers, st1.observer_count, "quitter",
                              NoArgs, NoKw)
    IN IF call.target = "quitter"
       THEN [st1 EXCEPT !.observers = d.observers,
                        !.observer_count = d.observer_count,
                        !.exc = d.exc]
       ELSE st1

CallArgsNoOwner(owner, args) == args

\* line 144: fn(self.obj, *args, ...)
CallArgs(owner, args) == <<owner>> \o args

\* line 147: obv.on_notify(self.name, self.obj, *args, ...)
NotifyArgs(nm, owner, args) == <<nm, owner>> \o args

\* line 140: args = args + sargs
EmitArgs(args, sargs) == args \o sargs

\* line 141: kw.update(skw)
EmitKw(kw, skw) == DictUpdate(kw, skw)

HaltsNever(st) == FALSE

\* lines 136-147 hold no try statement: an exception raised by a subscriber
\* ends the loop and leaves emit
Halts(st) == st.exc # "none"

\* lines 136-147: the for loop from the entry at index i (1-based) on, with the
\* current values of the locals args and kw
RECURSIVE EmitLoop(_, _, _, _)
EmitLoop(i, args, kw, st) ==
    IF i > Len(st.observers) THEN st
    ELSE LET obv == st.observers[i] IN
      IF IsSignalBind(obv)
      THEN LET args2 == EmitArgs(args, obv.args)
               kw2 == EmitKw(kw, obv.kw)
               out == SubscriberBody(
                        Call(i, obv.fn, "call", CallArgs(st.obj, args2), kw2), st)
           IN IF Halts(out) THEN out ELSE EmitLoop(i + 1, args2, kw2, out)
      ELSE IF ~HasOnNotify(obv.fn)
           THEN [st EXCEPT !.exc = "AttributeError"]
           ELSE LET out == SubscriberBody(
                        Call(i, obv.fn, "on_notify",
                             NotifyArgs(st.name, st.obj, args), kw), st)
                IN IF Halts(out) THEN out ELSE EmitLoop(i + 1, args, kw, out)

EmitEffectOneShot(nm, owner, obs, cnt, d, args, kw) ==
    [EmitLoop(1, args, kw,
              [name |-> nm, obj |-> owner, observers |-> obs, observer_count |-> cnt,
               data |-> d, calls |-> <<>>, exc |-> "none"])
       EXCEPT !.observers = <<>>, !.observer_count = 0]

\* emit(*args, **kw) on the signal and the recorded value d
EmitEffect(nm, owner, obs, cnt, d, args, kw) ==
    EmitLoop(1, args, kw,
             [name |-> nm, obj |-> owner, observers |-> obs, observer_count |-> cnt,
              data |-> d, calls |-> <<>>, exc |-> "none"])

Emit ==
    /\ \E in \in EmitInputs :
         LET e == EmitEffect(name, obj, observers, observer_count, data, in[1], in[2]) IN
           /\ name' = e.name
           /\ obj' = e.obj
           /\ observers' = e.observers
           /\ observer_count' = e.observer_count
           /\ data' = e.data
           /\ result' = Outcome("emit", "", in[1], in[2], e.exc, e.calls)
    /\ UNCHANGED bsvars
    /\ UNCHANGED extvars
    /\ UNCHANGED auxvars

(***************************************************************************)
(* The signal: signal("fed", Fido), then any sequence of connect,          *)
(* disconnect and emit calls.                                              *)
(***************************************************************************)
\* no call under way, no dictionary and no listbox
NoCall == [fn |-> "none"]
NoRet == [exc |-> "none"]
AuxIdle ==
    /\ calling = NoCall
    /\ ret = NoRet
    /\ rdict = {}
    /\ items = <<>>

BsIdle ==
    /\ array = <<>>
    /\ pattern = 0
    /\ low = 0
    /\ high = 0
    /\ res = -1
    /\ pc = "idle"

Init ==
    /\ LET s == SignalInit("fed", "Fido") IN
         /\ name = s.name
         /\ obj = s.obj
         /\ observers = s.observers
         /\ observer_count = s.observer_count
    /\ data = "None"
    /\ result = Outcome("init", "", NoArgs, NoKw, "none", <<>>)
    /\ BsIdle
    /\ ExtIdle
    /\ AuxIdle

Next == Connect \/ Disconnect \/ Emit

Spec == Init /\ [][Next]_vars

(***************************************************************************)
(* binary_search(array, pattern), one action per step of the function.     *)
(* Python indices are 0-based: array[i] is the element i + 1 of the        *)
(* sequence, and a negative index counts from the end.                     *)
(***************************************************************************)
\* the arrays the model draws: sorted from lowest to highest, duplicates allowed
SortedArrays ==
    { a \in UNION { [1..n -> 1..MaxVal] : n \in 0..MaxLen } :
        \A i \in 1..(Len(a) - 1) : a[i] <= a[i + 1] }

Patterns == 0..(MaxVal + 1)

\* whether array[i] raises no IndexError
InRange(a, i) == -Len(a) <= i /\ i < Len(a)

\* array[i]
At(a, i) == IF i >= 0 THEN a[i + 1] ELSE a[Len(a) + i + 1]

\* line 225: mid = (high + low) // 2
Mid(lo, hi) == (hi + lo) \div 2

LoopingUntilOne(lo, hi) == (hi - lo) > 0

\* line 224: the loop condition
Looping(lo, hi) == (hi - lo) > 1

FinalCheckNoElif(a, lo, hi, p) ==
    IF At(a, lo) = p THEN lo ELSE hi

FinalCheckLowOnly(a, lo, hi, p) ==
    IF At(a, lo) = p THEN lo ELSE -1

\* lines 235-240: the two boundary indices are compared, low first
FinalCheck(a, lo, hi, p) ==
    IF At(a, lo) = p THEN lo
    ELSE IF At(a, hi) = p THEN hi
    ELSE -1

\* lines 219-222
BsEnter ==
    /\ pc = "start"
    /\ low' = 0
    /\ high' = Len(array) - 1
    /\ res' = -1
    /\ pc' = IF 0 > Len(array) - 1 THEN "done" ELSE "loop"
    /\ UNCHANGED <<array, pattern>>
    /\ UNCHANGED sigvars
    /\ UNCHANGED extvars
    /\ UNCHANGED auxvars

\* lines 224-233: one iteration of the while loop
BsIterate ==
    /\ pc = "loop"
    /\ Looping(low, high)
    /\ LET mid == Mid(low, high) IN
         IF ~InRange(array, mid)
         THEN pc' = "IndexError" /\ UNCHANGED <<low, high, res>>
         ELSE LET v == At(array, mid) IN
           \/ /\ v = pattern
              /\ res' = mid
              /\ pc' = "done"
              /\ UNCHANGED <<low, high>>
           \/ /\ v < pattern
              /\ low' = mid + 1
              /\ UNCHANGED <<high, res, pc>>
           \/ /\ v > pattern
              /\ high' = mid - 1
              /\ UNCHANGED <<low, res, pc>>
    /\ UNCHANGED <<array, pattern>>
    /\ UNCHANGED sigvars
    /\ UNCHANGED extvars
    /\ UNCHANGED auxvars

\* lines 235-240: the loop has ended
BsCheck ==
    /\ pc = "loop"
    /\ ~Looping(low, high)
    /\ IF InRange(array, low) /\ (At(array, low) = pattern \/ InRange(array, high))
       THEN res' = FinalCheck(array, low, high, pattern) /\ pc' = "done"
       ELSE res' = res /\ pc' = "IndexError"
    /\ UNCHANGED <<array, pattern, low, high>>
    /\ UNCHANGED sigvars
    /\ UNCHANGED extvars
    /\ UNCHANGED auxvars

\* the signal when the model runs binary_search only
SigIdle ==
    /\ name = "fed"
    /\ obj = "Fido"
    /\ observers = <<>>
    /\ observer_count = 0
    /\ data = "None"
    /\ result = Outcome("init", "", NoArgs, NoKw, "none", <<>>)

InitBS ==
    /\ array \in SortedArrays
    /\ pattern \in Patterns
    /\ low = 0
    /\ high = 0
    /\ res = -1
    /\ pc = "start"
    /\ SigIdle
    /\ ExtIdle
    /\ AuxIdle

NextBS == BsEnter \/ BsIterate \/ BsCheck

SpecBS == InitBS /\ [][NextBS]_vars

(***************************************************************************)
(* Properties of signal.emit                                               *)
(***************************************************************************)
\* the invocations the last emit made for the entry at index i
CallsFor(i) == { j \in 1..Len(result.calls) : result.calls[j].idx = i }

\* whether notifying the entry raises: the function "boom", or an object
\* without an on_notify method
Raises(obv) ==
    \/ obv.bind /\ obv.fn = "boom"
    \/ ~obv.bind /\ ~HasOnNotify(obv.fn)

\* the index of the first entry of observers whose notification raises, and
\* Len(observers) when there is none
LastNotified ==
    IF \E i \in 1..Len(observers) : Raises(observers[i])
    THEN CHOOSE i \in 1..Len(observers) :
           /\ Raises(observers[i])
           /\ \A j \in 1..(i - 1) : ~Raises(observers[j])
    ELSE Len(observers)

\* C1 as stated: after connect calls and one emit, every callable subscriber
\* registered is invoked exactly once, with the owner as first positional
\* argument, and the invocations follow the order of subscription.
C1_EveryCallableOnceInOrder ==
    result.op = "emit" =>
      /\ \A i \in 1..Len(observers) :
           observers[i].bind => Cardinality(CallsFor(i)) = 1
      /\ \A j \in 1..Len(result.calls) :
           result.calls[j].how = "call" =>
             /\ result.calls[j].target = observers[result.calls[j].idx].fn
             /\ Len(result.calls[j].pos) >= 1
             /\ result.calls[j].pos[1] = obj
      /\ \A j, k \in 1..Len(result.calls) :
           j < k => result.calls[j].idx < result.calls[k].idx

\* C1 amended: after connect calls and one emit, every callable subscriber
\* registered up to and including the first subscriber whose notification
\* raises (every one when none raises) is invoked exactly once, with the owner
\* as first positional argument, in the order of subscription; the callable
\* subscribers after the one that raised are not invoked.
C1_CallablesOnceInOrderUntilRaise ==
    result.op = "emit" =>
      /\ \A i \in 1..Len(observers) :
           observers[i].bind =>
             Cardinality(CallsFor(i)) = IF i <= LastNotified THEN 1 ELSE 0
      /\ \A j \in 1..Len(result.calls) :
           result.calls[j].how = "call" =>
             /\ result.calls[j].target = observers[result.calls[j].idx].fn
             /\ Len(result.calls[j].pos) >= 1
             /\ result.calls[j].pos[1] = obj
      /\ \A j, k \in 1..Len(result.calls) :
           j < k => result.calls[j].idx < result.calls[k].idx

\* C1 witness: an emit over three entries, the first two callable and invoked
\* in order, the last one not reached because the second raised
C1_Witness ==
    /\ result.op = "emit"
    /\ Len(observers) = 3
    /\ observers[1].fn = "record" /\ observers[2].fn = "boom"
    /\ observers[3].fn = "noop"
    /\ Len(result.calls) = 2
    /\ result.calls[1].target = "record" /\ result.calls[2].target = "boom"

\* C2: emit(*args) invokes every callable registration with the positional
\* arguments (owner, *args, *extra_args), extra_args being those of that
\* registration's own connect call and of no other registration.
C2_OwnExtraArgsOnly ==
    result.op = "emit" =>
      \A j \in 1..Len(result.calls) :
        result.calls[j].how = "call" =>
          result.calls[j].pos =
            <<obj>> \o result.args \o observers[result.calls[j].idx].args

\* C3: emit(**kwargs) invokes every callable registration with kwargs
\* overridden by that registration's own extra_kwargs; a key bound only by
\* another registration does not appear in the call.
C3_OwnExtraKwargsOnly ==
    result.op = "emit" =>
      \A j \in 1..Len(result.calls) :
        result.calls[j].how = "call" =>
          result.calls[j].kw =
            {p \in result.kw :
               \A q \in observers[result.calls[j].idx].kw : q[1] # p[1]}
            \cup observers[result.calls[j].idx].kw

\* C4: an object registration is notified through on_notify with
\* (signal name, owner, *args, **kwargs), args and kwargs being exactly those
\* of the emit call, whatever callable registrations precede it.
C4_ObjectGetsEmitArgs ==
    result.op = "emit" =>
      \A j \in 1..Len(result.calls) :
        result.calls[j].how = "on_notify" =>
          /\ result.calls[j].pos = <<name, obj>> \o result.args
          /\ result.calls[j].kw = result.kw

(***************************************************************************)
(* Properties of the subscriber list and its count                         *)
(***************************************************************************)
\* the number of entries of list registered for subscriber s
Registrations(list, s) ==
    Cardinality({ i \in 1..Len(list) : list[i].fn = s })

\* whether the entry is the registration disconnect(s, *binds, **kw) asks to
\* remove: the same function with the same bound arguments, or the same object
Matches(obv, s, binds, kw) ==
    /\ obv.fn = s
    /\ obv.bind => (obv.args = binds /\ obv.kw = kw)

C6_DisconnectedNotInvoked ==
    [][ \A s \in Subscribers :
          /\ ( /\ result'.op = "disconnect"
               /\ result'.exc = "none"
               /\ result'.fn = s
               /\ Registrations(observers, s) = 1 ) =>
                 Registrations(observers', s) = 0
          /\ ( /\ result'.op = "emit"
               /\ Registrations(observers, s) = 0 ) =>
                 /\ \A j \in 1..Len(result'.calls) : result'.calls[j].target # s
                 /\ s = "record" => data' = data ]_vars

\* C6 witness: the recorder stored "dog", is no longer registered, and an
\* emit of "cat" that reached another subscriber left the stored value alone
C6_Witness ==
    /\ result.op = "emit"
    /\ result.args = <<"cat">>
    /\ Len(result.calls) >= 1
    /\ Registrations(observers, "record") = 0
    /\ data = "dog"

\* C7: connect with a subscriber that is neither callable nor an object with
\* an on_notify method fails with an error and registers nothing.
C7_ConnectRejectsPlainObject ==
    /\ (result.op = "connect" /\ ~IsCallable(result.fn) /\ ~HasOnNotify(result.fn))
         => result.exc # "none"
    /\ \A i \in 1..Len(observers) :
         IsCallable(observers[i].fn) \/ HasOnNotify(observers[i].fn)

\* C8: disconnect fails with a not-found error (ValueError) when no
\* registration matches exactly, for a subscriber never connected as for a
\* connected callable passed with other extra arguments, and then leaves the
\* subscriber list and the count unchanged.
C8_DisconnectNotFound ==
    [][ ( /\ result'.op = "disconnect"
          /\ \A i \in 1..Len(observers) :
               ~Matches(observers[i], result'.fn, result'.args, result'.kw) ) =>
            /\ result'.exc = "ValueError"
            /\ observers' = observers
            /\ observer_count' = observer_count ]_vars

\* C8 witness: a disconnect of the recorder without extra arguments failed
\* while the recorder is registered with extra arguments only
C8_Witness ==
    /\ result.op = "disconnect"
    /\ result.exc = "ValueError"
    /\ result.fn = "record"
    /\ result.args = NoArgs
    /\ Len(observers) = 2
    /\ observer_count = 2
    /\ observers[1] = FormSignalBind("record", <<"b1">>, {<<"k", "v1">>})

\* C9: when a subscriber raises during emit, emit ends with that error, every
\* subscriber registered before it has been notified once and no subscriber
\* registered after it is notified.
C9_RaiseEndsEmission ==
    ( /\ result.op = "emit"
      /\ \E i \in 1..Len(observers) : Raises(observers[i]) ) =>
        /\ result.exc =
             IF observers[LastNotified].bind THEN "RuntimeError" ELSE "AttributeError"
        /\ \A i \in 1..Len(observers) :
             /\ i < LastNotified => Cardinality(CallsFor(i)) = 1
             /\ i > LastNotified => CallsFor(i) = {}

\* C9 witness: the function that raises stands between two other subscribers
C9_Witness ==
    /\ result.op = "emit"
    /\ result.exc = "RuntimeError"
    /\ Len(observers) = 3
    /\ observers[1].fn = "watcher"
    /\ observers[2].fn = "boom"
    /\ observers[3].fn = "record"
    /\ Len(result.calls) = 2

(***************************************************************************)
(* Properties of binary_search                                             *)
(***************************************************************************)
\* C10: for an ascending array and a pattern that occurs in it, binary_search
\* returns an index i with 0 <= i < len(array) and array[i] == pattern.
C10_FoundWhenPresent ==
    (\E i \in 1..Len(array) : array[i] = pattern) =>
      /\ pc # "IndexError"
      /\ pc = "done" =>
           /\ 0 <= res
           /\ res < Len(array)
           /\ array[res + 1] = pattern

\* C10 witness: the pattern is found at the upper boundary after the loop ran
C10_Witness ==
    /\ pc = "done"
    /\ Len(array) = 7
    /\ array[7] = pattern
    /\ array[6] < pattern
    /\ res = 6

\* C11: for an ascending array and a pattern that does not occur in it,
\* binary_search returns -1: for the empty array, a pattern below every
\* element, above every element, or between two adjacent elements.
C11_MinusOneWhenAbsent ==
    (\A i \in 1..Len(array) : array[i] # pattern) =>
      /\ pc # "IndexError"
      /\ pc = "done" => res = -1

\* C11 witness: the pattern lies between two adjacent elements of a full array
C11_Witness ==
    /\ pc = "done"
    /\ res = -1
    /\ Len(array) = 7
    /\ array[3] < pattern
    /\ pattern < array[4]

\* C13: binary_search returns the first index where the pattern is found: in
\* an ascending array that holds the pattern several times, no lower index
\* than the returned one holds an element equal to the pattern.
C13_LowestIndexReturned ==
    (pc = "done" /\ res >= 0) =>
      \A j \in 1..res : array[j] # pattern

(***************************************************************************)
(* signal.__init__ with the owner left to the constructor.  The frame of   *)
(* the caller is modelled by its local variables, a dictionary, and the    *)
(* module its code belongs to (frame.f_globals['__name__']).  CPython      *)
(* gives every Python function a frame, so inspect.currentframe() and      *)
(* f_back of __init__ are frames; a frame of kind "none" stands for the    *)
(* None they are on an interpreter without frame support.                  *)
(***************************************************************************)
Instances == {"Fido", "Missy", "Rex"}
Modules == {"test_signals", "listbox"}
SignalNames == {"fed", "test"}

\* dict.get(key): the value stored under key, None when there is none
DictGet(d, key) ==
    IF \E p \in d : p[1] = key
    THEN (CHOOSE p \in d : p[1] = key)[2]
    ELSE "None"

\* the callers of the model: a method of an instance (self is a local), and
\* a module-level function, with and without other locals
Frame(kind, locals, module) == [kind |-> kind, locals |-> locals, module |-> module]
CallerFrames ==
    { Frame("method", {<<"self", i>>}, m) : i \in Instances, m \in Modules }
    \cup { Frame("function", {}, m) : m \in Modules }
    \cup { Frame("function", {<<"thismod", m>>}, m) : m \in Modules }

SignalNewModuleOnly(nm, owner, frame) ==
    [SignalInit(nm, owner) EXCEPT
       !.obj = IF owner # "None" \/ frame.kind = "none" THEN owner ELSE frame.module]

\* lines 34-57: the fields, then the owner looked up in the caller's frame
\* when obj is None
SignalNew(nm, owner, frame) ==
    [SignalInit(nm, owner) EXCEPT
       !.obj = IF owner # "None" \/ frame.kind = "none" THEN owner
               ELSE IF DictGet(frame.locals, "self") = "None" THEN frame.module
               ELSE DictGet(frame.locals, "self")]

\* signal(name) or signal(name, obj) called from the frame calling.frame
SigNew ==
    /\ calling.fn = "signal"
    /\ ret.exc = "pending"
    /\ LET s == SignalNew(calling.name, calling.obj, calling.frame) IN
         /\ name' = s.name
         /\ obj' = s.obj
         /\ observers' = s.observers
         /\ observer_count' = s.observer_count
    /\ ret' = [exc |-> "none"]
    /\ UNCHANGED <<data, result, calling, rdict, items>>
    /\ UNCHANGED bsvars
    /\ UNCHANGED extvars

InitNew ==
    /\ calling \in { [fn |-> "signal", name |-> n, obj |-> o, frame |-> f] :
                       n \in SignalNames, o \in Instances \cup {"None"},
                       f \in CallerFrames }
    /\ ret = [exc |-> "pending"]
    /\ name = ""
    /\ obj = "None"
    /\ observers = <<>>
    /\ observer_count = 0
    /\ data = "None"
    /\ result = Outcome("init", "", NoArgs, NoKw, "none", <<>>)
    /\ rdict = {}
    /\ items = <<>>
    /\ BsIdle
    /\ ExtIdle

NextNew == SigNew

SpecNew == InitNew /\ [][NextNew]_vars

\* C12: a signal created with an explicit owner has that object as its owner;
\* created without one it takes the caller's self when the caller is a method,
\* and the module of the calling code otherwise.
C12_OwnerGivenOrInferred ==
    (calling.fn = "signal" /\ ret.exc = "none") =>
      /\ name = calling.name
      /\ calling.obj # "None" => obj = calling.obj
      /\ (calling.obj = "None" /\ calling.frame.kind = "method") =>
           <<"self", obj>> \in calling.frame.locals
      /\ (calling.obj = "None" /\ calling.frame.kind # "method") =>
           obj = calling.frame.module

\* C12 witness: a method of Missy creates a signal without naming an owner
C12_Witness ==
    /\ calling.fn = "signal"
    /\ ret.exc = "none"
    /\ calling.obj = "None"
    /\ calling.frame.kind = "method"
    /\ obj = "Missy"

(***************************************************************************)
(* ExListbox.search and ExListbox.set_values.  The signals of the listbox  *)
(* have no subscribers in the model, so the emit of set_values reaches     *)
(* nobody.                                                                 *)
(***************************************************************************)
\* listbox.py line 99: lists of this many items go to binary_search
SearchThreshold == 15
\* the short contents of the model have at most MaxShortLen items
MaxShortLen == 3

\* the names bound in the module listbox.py when it runs: TYPE_CHECKING is
\* false then, so the imports of lines 8-14 are not made
ListboxGlobals ==
    {"annotations", "ttk", "_WidgetMixin", "signal", "TYPE_CHECKING", "tk", "sys",
     "ExListbox"}

\* the contents the model gives the listbox: every short list over 1..3, and
\* lists of SearchThreshold and SearchThreshold + 1 items that are constant,
\* ascending, or a repeated 2, 3, 1
ListContents ==
    UNION { [1..n -> 1..3] : n \in 0..MaxShortLen }
    \cup { [i \in 1..n |-> 1] : n \in SearchThreshold..(SearchThreshold + 1) }
    \cup { [i \in 1..n |-> i] : n \in SearchThreshold..(SearchThreshold + 1) }
    \cup { [i \in 1..n |-> (i % 3) + 1] : n \in SearchThreshold..(SearchThreshold + 1) }

ListPatterns == 0..4

\* binary_search as one function: the loop of lines 224-233 from the window
\* [lo, hi], then the final check
RECURSIVE BinarySearchFrom(_, _, _, _)
BinarySearchFrom(a, lo, hi, p) ==
    IF Looping(lo, hi)
    THEN LET mid == Mid(lo, hi) IN
           IF At(a, mid) = p THEN mid
           ELSE IF At(a, mid) < p THEN BinarySearchFrom(a, mid + 1, hi, p)
           ELSE BinarySearchFrom(a, lo, mid - 1, p)
    ELSE FinalCheck(a, lo, hi, p)

\* binary_search(array, pattern), lines 219-240
BinarySearch(a, p) ==
    IF 0 > Len(a) - 1 THEN -1 ELSE BinarySearchFrom(a, 0, Len(a) - 1, p)

\* lines 102-112: the scan from the 0-based index i on
RECURSIVE LinearScan(_, _, _)
LinearScan(values, p, i) ==
    IF i >= Len(values) THEN -1
    ELSE IF values[i + 1] = p THEN i
    ELSE LinearScan(values, p, i + 1)

\* ExListbox.search, lines 97-112
ListboxSearch(values, p) ==
    IF Len(values) >= SearchThreshold
    THEN IF "binary_search" \in ListboxGlobals
         THEN [exc |-> "none", value |-> BinarySearch(values, p)]
         ELSE [exc |-> "NameError", value |-> -1]
    ELSE [exc |-> "none", value |-> LinearScan(values, p, 0)]

\* ExListbox.set_values, lines 136-139
LbSetValues ==
    /\ \E v \in ListContents : items' = v
    /\ calling' = [fn |-> "set_values", pattern |-> 0]
    /\ ret' = [exc |-> "none", value |-> -1]
    /\ UNCHANGED rdict
    /\ UNCHANGED sigvars
    /\ UNCHANGED bsvars
    /\ UNCHANGED extvars

\* ExListbox.search(pattern)
LbSearch ==
    /\ \E p \in ListPatterns :
         /\ calling' = [fn |-> "search", pattern |-> p]
         /\ ret' = ListboxSearch(items, p)
    /\ UNCHANGED <<rdict, items>>
    /\ UNCHANGED sigvars
    /\ UNCHANGED bsvars
    /\ UNCHANGED extvars

InitLB ==
    /\ AuxIdle
    /\ SigIdle
    /\ BsIdle
    /\ ExtIdle

NextLB == LbSetValues \/ LbSearch

SpecLB == InitLB /\ [][NextLB]_vars

\* C14: ExListbox.search returns the index of the first item equal to the
\* pattern, or -1 when no item is equal, for every content and length of the
\* listbox: from 15 items on the result is that of the linear scan too.
C14_SearchIsFirstMatch ==
    calling.fn = "search" =>
      /\ ret.exc = "none"
      /\ ret.value = FirstIndex(items, calling.pattern) - 1

(***************************************************************************)
(* Filesize.  A string is a sequence of one-character strings.  A number   *)
(* of bytes is a record [m, e] standing for m * 1024^e, kept in the form   *)
(* where m is no multiple of 1024 (and e = 0 for m = 0); the floats of the *)
(* code hold these values exactly, and dividing one by 1024.0 lowers e by  *)
(* one.  A size, which from_value rounds to two decimals, is counted in    *)
(* hundredths (size100).                                                   *)
(***************************************************************************)
\* suffixes, line 143, and the keys of multipliers, lines 108-113
Units == << <<"b">>, <<"k", "b">>, <<"m", "b">>, <<"g", "b">> >>

UnitIndexGbAsMb(u) ==
    IF u = <<"g", "b">> THEN 2 ELSE (CHOOSE i \in 1..Len(Units) : Units[i] = u) - 1

\* the index i with suffixes[i] = u; multipliers[u] is 1024.0 ** i
UnitIndex(u) == (CHOOSE i \in 1..Len(Units) : Units[i] = u) - 1

\* 1024^k, for k up to 3
RECURSIVE Pow1024(_)
Pow1024(k) == IF k <= 0 THEN 1 ELSE 1024 * Pow1024(k - 1)

\* the record of the number m * 1024^e
RECURSIVE Bytes(_, _)
Bytes(m, e) ==
    IF m = 0 THEN [m |-> 0, e |-> 0]
    ELSE IF m % 1024 = 0 THEN Bytes(m \div 1024, e + 1)
    ELSE [m |-> m, e |-> e]

\* Filesize.__init__, lines 35-40
Filesize(size100, raw, unit, approximate) ==
    [size100 |-> size100, raw_byte_size |-> raw, unit |-> unit,
     approximate |-> approximate]

\* the character classes of the regular expression of line 90
Digits == <<"0", "1", "2", "3", "4", "5", "6", "7", "8", "9">>
IsDigit(c) == \E i \in 1..10 : Digits[i] = c
IsNonZeroDigit(c) == \E i \in 2..10 : Digits[i] = c
DigitValue(c) == (CHOOSE i \in 1..10 : Digits[i] = c) - 1
IsSpace(c) == c \in {" ", "\t", "\n"}
IsPrefixLetter(c) == c \in {"m", "M", "g", "G", "k", "K"}
IsB(c) == c \in {"b", "B"}

\* the character at the 0-based index i, "" past the end
CharAt(s, i) == IF i < Len(s) THEN s[i + 1] ELSE ""

\* the index after the longest run of digits, and of whitespace, from i on
RECURSIVE DigitsEnd(_, _)
DigitsEnd(s, i) == IF IsDigit(CharAt(s, i)) THEN DigitsEnd(s, i + 1) ELSE i
RECURSIVE SpacesEnd(_, _)
SpacesEnd(s, i) == IF IsSpace(CharAt(s, i)) THEN SpacesEnd(s, i + 1) ELSE i

\* float(num) for the digits s[from..to-1] (0-based)
RECURSIVE ToNumber(_, _, _)
ToNumber(s, from, to) ==
    IF to <= from THEN 0
    ELSE 10 * ToNumber(s, from, to - 1) + DigitValue(CharAt(s, to - 1))

\* the match of ~?([1-9][0-9]*)\s*([mMgGkK]?[bB]) that starts at index pos.
\* Each part of the expression is followed by a character outside its own
\* class, so the longest run is the only one that can match.
MatchAt(s, pos) ==
    LET tilde == CharAt(s, pos) = "~"
        n0 == IF tilde THEN pos + 1 ELSE pos
        n1 == DigitsEnd(s, n0)
        u0 == SpacesEnd(s, n1)
        unit == IF IsPrefixLetter(CharAt(s, u0)) /\ IsB(CharAt(s, u0 + 1))
                THEN <<CharAt(s, u0), CharAt(s, u0 + 1)>>
                ELSE IF IsB(CharAt(s, u0)) THEN <<CharAt(s, u0)>>
                ELSE <<>>
    IN [ok |-> IsNonZeroDigit(CharAt(s, n0)) /\ unit # <<>>,
        tilde |-> tilde, from |-> n0, to |-> n1, unit |-> unit]

\* re.search: the match at the least index that has one
ReSearch(s) ==
    IF \E pos \in 0..(Len(s) - 1) : MatchAt(s, pos).ok
    THEN MatchAt(s, CHOOSE pos \in 0..(Len(s) - 1) :
                      /\ MatchAt(s, pos).ok
                      /\ \A q \in 0..(pos - 1) : ~MatchAt(s, q).ok)
    ELSE [ok |-> FALSE, tilde |-> FALSE, from |-> 0, to |-> 0, unit |-> <<>>]

NoFilesize == Filesize(0, Bytes(0, 0), <<>>, FALSE)

\* Filesize.from_string, lines 90-123
FromString(s) ==
    LET m == ReSearch(s) IN
      IF ~m.ok THEN [exc |-> "ValueError", value |-> NoFilesize]
      ELSE IF \A i \in 1..Len(Units) : Units[i] # m.unit
      THEN [exc |-> "AssertionError", value |-> NoFilesize]
      ELSE LET num == ToNumber(s, m.from, m.to) IN
        [exc |-> "none",
         value |-> Filesize(num * 100, Bytes(num, UnitIndex(m.unit)), m.unit, m.tilde)]

Ge1024Strict(m, e) ==
    IF m = 0 THEN FALSE
    ELSE IF e >= 1 THEN ~(m = 1 /\ e = 1)
    ELSE IF 1 - e >= 4 THEN FALSE
    ELSE m > Pow1024(1 - e)

\* value >= 1024.0 for the value m * 1024^e; m stays below 1024^4
Ge1024(m, e) ==
    IF m = 0 THEN FALSE
    ELSE IF e >= 1 THEN TRUE
    ELSE IF 1 - e >= 4 THEN FALSE
    ELSE m >= Pow1024(1 - e)

\* lines 144-147: the loop; i counts the divisions
RECURSIVE DivideLoop(_, _, _)
DivideLoop(m, e, i) ==
    IF Ge1024(m, e) THEN DivideLoop(m, e - 1, i + 1) ELSE [m |-> m, e |-> e, i |-> i]

\* num / den rounded to an integer, a tie going to the even one
RoundHalfEven(num, den) ==
    LET q == num \div den
        r == num % den
    IN IF 2 * r > den THEN q + 1
       ELSE IF 2 * r < den THEN q
       ELSE IF q % 2 = 0 THEN q ELSE q + 1

\* line 152: round(value, 2) in hundredths, for the value m * 1024^e left by
\* the loop (below 1024)
Round2(m, e) ==
    IF e >= 0 THEN m * Pow1024(e) * 100
    ELSE (m \div Pow1024(-e)) * 100
         + RoundHalfEven((m % Pow1024(-e)) * 100, Pow1024(-e))

\* Filesize.from_value, lines 142-157; suffixes[i] raises IndexError past gb
FromValue(v, approximate) ==
    LET d == DivideLoop(v.m, v.e, 0) IN
      IF d.i >= Len(Units) THEN [exc |-> "IndexError", value |-> NoFilesize]
      ELSE [exc |-> "none",
            value |-> Filesize(Round2(d.m, d.e), Bytes(v.m, v.e), Units[d.i + 1],
                               approximate)]

\* a + b for two numbers of bytes
BytesSum(a, b) ==
    LET lo == IF a.e < b.e THEN a.e ELSE b.e IN
      Bytes(a.m * Pow1024(a.e - lo) + b.m * Pow1024(b.e - lo), lo)

\* Filesize.__add__, lines 57-58: the result, and the two operands after it
Add(self, other) ==
    LET r == FromValue(BytesSum(other.raw_byte_size, self.raw_byte_size), FALSE) IN
      [exc |-> r.exc, value |-> r.value, self |-> self, other |-> other]

(***************************************************************************)
(* The calls on Filesize the model makes.                                  *)
(***************************************************************************)
\* a string is at most MaxBody characters of FsBodyChars, then one of FsTails
MaxBody == 3
\* from_value is given v * 1024^e for v in 0..MaxBytes and e in 0..MaxExp
MaxBytes == 1200
MaxExp == 3

FsBodyChars == {"~", "0", "1", " ", "x"}
FsTails ==
    { <<>>, <<"b">>, <<"k", "b">>, <<"m", "b">>, <<"g", "b">>,
      <<"K", "B">>, <<"M", "b">>, <<"k">>, <<"b", "x">> }
FsStrings ==
    { body \o tail :
        body \in UNION { [1..n -> FsBodyChars] : n \in 0..MaxBody },
        tail \in FsTails }

FsValues == { Bytes(v, e) : v \in 0..MaxBytes, e \in 0..MaxExp }

\* the operands of +: Filesize objects made by from_string
FsOperandStrings ==
    { <<"1", " ", "k", "b">>, <<"1", "0", "2", "3", " ", "k", "b">>,
      <<"3", " ", "m", "b">>, <<"~", "3", " ", "m", "b">>,
      <<"1", " ", "g", "b">>, <<"1", "0", "2", "3", " ", "g", "b">> }
FsOperands == { FromString(s).value : s \in FsOperandStrings }

\* the calls waiting to be made
FsCalls ==
    { [fn |-> "from_string", string |-> s] : s \in FsStrings }
    \cup { [fn |-> "from_value", value |-> v, approximate |-> a] :
             v \in FsValues, a \in BOOLEAN }
    \cup { [fn |-> "add", self |-> a, other |-> b] :
             a \in FsOperands, b \in FsOperands }

FsFromString ==
    /\ calling.fn = "from_string"
    /\ ret.exc = "pending"
    /\ ret' = FromString(calling.string)
    /\ UNCHANGED <<calling, rdict, items>>
    /\ UNCHANGED sigvars
    /\ UNCHANGED bsvars
    /\ UNCHANGED extvars

FsFromValue ==
    /\ calling.fn = "from_value"
    /\ ret.exc = "pending"
    /\ ret' = FromValue(calling.value, calling.approximate)
    /\ UNCHANGED <<calling, rdict, items>>
    /\ UNCHANGED sigvars
    /\ UNCHANGED bsvars
    /\ UNCHANGED extvars

FsAdd ==
    /\ calling.fn = "add"
    /\ ret.exc = "pending"
    /\ ret' = Add(calling.self, calling.other)
    /\ UNCHANGED <<calling, rdict, items>>
    /\ UNCHANGED sigvars
    /\ UNCHANGED bsvars
    /\ UNCHANGED extvars

InitFS ==
    /\ calling \in FsCalls
    /\ ret = [exc |-> "pending"]
    /\ rdict = {}
    /\ items = <<>>
    /\ SigIdle
    /\ BsIdle
    /\ ExtIdle

NextFS == FsFromString \/ FsFromValue \/ FsAdd

SpecFS == InitFS /\ [][NextFS]_vars

\* the parts of a string read from its start: an optional "~", the digits,
\* the whitespace, and what is left as the unit
StringParts(s) ==
    LET t == IF CharAt(s, 0) = "~" THEN 1 ELSE 0
        n1 == DigitsEnd(s, t)
        u0 == SpacesEnd(s, n1)
    IN [tilde |-> t = 1, from |-> t, to |-> n1, unit |-> SubSeq(s, u0 + 1, Len(s))]

LowerUnits == { <<"b">>, <<"k", "b">>, <<"m", "b">>, <<"g", "b">> }

\* n times 1, 1024, 1024^2 or 1024^3 bytes
ExpectedRaw(n, u) ==
    CASE u = <<"b">> -> Bytes(n, 0)
      [] u = <<"k", "b">> -> Bytes(n, 1)
      [] u = <<"m", "b">> -> Bytes(n, 2)
      [] u = <<"g", "b">> -> Bytes(n, 3)

ParsedAsWritten(s) ==
    LET p == StringParts(s)
        n == ToNumber(s, p.from, p.to)
    IN /\ ret.exc = "none"
       /\ ret.value.size100 = n * 100
       /\ ret.value.unit = p.unit
       /\ ret.value.raw_byte_size = ExpectedRaw(n, p.unit)
       /\ ret.value.approximate = p.tilde

\* C15 as stated: from_string on an optional "~", a number N (any digits),
\* optional whitespace and a unit among b, kb, mb, gb returns size N, that
\* unit, N times the unit's multiplier, and approximate iff it starts with "~".
C15_ParsesEveryNumber ==
    (calling.fn = "from_string" /\ ret.exc # "pending") =>
      LET p == StringParts(calling.string) IN
        (p.to > p.from /\ p.unit \in LowerUnits) => ParsedAsWritten(calling.string)

\* C15 amended: the same for a number N written without a leading zero (so
\* N is at least 1).
C15_ParsesNumberWithoutLeadingZero ==
    (calling.fn = "from_string" /\ ret.exc # "pending") =>
      LET p == StringParts(calling.string) IN
        (/\ IsNonZeroDigit(CharAt(calling.string, p.from))
         /\ p.unit \in LowerUnits)
          => ParsedAsWritten(calling.string)

C15_Witness ==
    /\ calling.fn = "from_string"
    /\ calling.string = <<"~", "1", " ", "g", "b">>
    /\ ret.exc = "none"
    /\ ret.value = Filesize(100, [m |-> 1, e |-> 3], <<"g", "b">>, TRUE)

\* C16: from_string raises ValueError for every string that is not an optional
\* "~", a number without leading zeroes, optional whitespace and a unit; and
\* every call ends in a Filesize or a ValueError.
C16_ValueErrorOrFilesize ==
    (calling.fn = "from_string" /\ ret.exc # "pending") =>
      LET p == StringParts(calling.string) IN
        /\ ret.exc \in {"none", "ValueError"}
        /\ ~(/\ IsNonZeroDigit(CharAt(calling.string, p.from))
             /\ Len(p.unit) \in 1..2
             /\ IsB(p.unit[Len(p.unit)])
             /\ Len(p.unit) = 2 => IsPrefixLetter(p.unit[1]))
             => ret.exc = "ValueError"

\* C17: from_value(v) returns, for every byte count v >= 0, a Filesize with
\* raw_byte_size v, a unit among b, kb, mb, gb, size = v / 1024^k for the
\* unit's step k, and the smallest unit for which size < 1024.
C17_FromValueExactSmallestUnit ==
    (calling.fn = "from_value" /\ ret.exc # "pending") =>
      /\ ret.exc = "none"
      /\ ret.value.raw_byte_size = calling.value
      /\ ret.value.unit \in LowerUnits
      /\ LET k == CHOOSE i \in 0..3 : ExpectedRaw(1, ret.value.unit) = Bytes(1, i) IN
           /\ Bytes(ret.value.size100, k) = Bytes(100 * calling.value.m, calling.value.e)
           /\ ret.value.size100 < 102400
           /\ k > 0 => ret.value.size100 >= 100

\* C18: a + b is a Filesize whose raw_byte_size is the sum of the operands'
\* and whose size and unit are those from_value gives for the sum; the
\* operands are not modified and a + b equals b + a.
C18_AddIsFromValueOfSum ==
    (calling.fn = "add" /\ ret.exc # "pending") =>
      LET sum == BytesSum(calling.self.raw_byte_size, calling.other.raw_byte_size) IN
        /\ ret.exc = "none"
        /\ ret.value.raw_byte_size = sum
        /\ ret.value.size100 = FromValue(sum, FALSE).value.size100
        /\ ret.value.unit = FromValue(sum, FALSE).value.unit
        /\ ret.self = calling.self
        /\ ret.other = calling.other
        /\ Add(calling.other, calling.self).exc = "none"
        /\ Add(calling.other, calling.self).value = ret.value

(***************************************************************************)
(* readonly_dict, utils.py 183-196: a dict subclass that overrides         *)
(* __setitem__ only.  The dictionary is the set rdict of <<key, value>>    *)
(* pairs.  An exception is named by the class it is an instance of.        *)
(***************************************************************************)
\* the exception classes, each with its base class: jsnake/utils.py 183,
\* jsnake/errors.py 35-42, and the builtins
ExceptionBase ==
    [c \in {"jsnake.utils.ConstantError", "jsnake.errors.ConstantError",
            "jsnake.errors.EnvError", "RuntimeError", "KeyError", "Exception"} |->
       CASE c \in {"jsnake.utils.ConstantError", "jsnake.errors.ConstantError",
                   "jsnake.errors.EnvError"} -> "RuntimeError"
         [] OTHER -> "Exception"]

\* isinstance(e, cls) for an exception e of class c, which is how
\* pytest.raises(cls) and an except clause pick what they catch
RECURSIVE IsInstance(_, _)
IsInstance(c, cls) ==
    IF c = cls THEN TRUE
    ELSE IF c \notin DOMAIN ExceptionBase \/ c = "Exception" THEN FALSE
    ELSE IsInstance(ExceptionBase[c], cls)

\* the module globals of jsnake/utils.py that name exception classes: line
\* 183 binds ConstantError to a class of the module's own
UtilsGlobals == {<<"ConstantError", "jsnake.utils.ConstantError">>}

RdKeys == {"one", "two", "three"}
RdValues == {"1", "2", "3"}
HasKey(d, key) == \E kv \in d : kv[1] = key

\* readonly_dict(**kwargs): dict.__init__ fills the dictionary
RdConstructions ==
    { {}, {<<"one", "1">>}, {<<"one", "1">>, <<"two", "2">>} }

RdDone(fn, key, value, exc, val) ==
    /\ calling' = [fn |-> fn, key |-> key, value |-> value]
    /\ ret' = [exc |-> exc, value |-> val]

\* d[key] = value: readonly_dict.__setitem__, lines 195-196
RdSetItem ==
    /\ \E key \in RdKeys, value \in RdValues :
         RdDone("setitem", key, value, DictGet(UtilsGlobals, "ConstantError"), "None")
    /\ rdict' = rdict
    /\ UNCHANGED items
    /\ UNCHANGED sigvars
    /\ UNCHANGED bsvars
    /\ UNCHANGED extvars

\* d.update({key: value}): inherited from dict, which stores without calling
\* __setitem__
RdUpdate ==
    /\ \E key \in RdKeys, value \in RdValues :
         /\ RdDone("update", key, value, "none", "None")
         /\ rdict' = DictUpdate(rdict, {<<key, value>>})
    /\ UNCHANGED items
    /\ UNCHANGED sigvars
    /\ UNCHANGED bsvars
    /\ UNCHANGED extvars

\* d.setdefault(key, value): inherited from dict
RdSetDefault ==
    /\ \E key \in RdKeys, value \in RdValues :
         IF HasKey(rdict, key)
         THEN /\ RdDone("setdefault", key, value, "none", DictGet(rdict, key))
              /\ rdict' = rdict
         ELSE /\ RdDone("setdefault", key, value, "none", value)
              /\ rdict' = rdict \cup {<<key, value>>}
    /\ UNCHANGED items
    /\ UNCHANGED sigvars
    /\ UNCHANGED bsvars
    /\ UNCHANGED extvars

\* del d[key]: inherited from dict
RdDelItem ==
    /\ \E key \in RdKeys :
         IF HasKey(rdict, key)
         THEN /\ RdDone("delitem", key, "None", "none", "None")
              /\ rdict' = { kv \in rdict : kv[1] # key }
         ELSE /\ RdDone("delitem", key, "None", "KeyError", "None")
              /\ rdict' = rdict
    /\ UNCHANGED items
    /\ UNCHANGED sigvars
    /\ UNCHANGED bsvars
    /\ UNCHANGED extvars

\* d.pop(key): inherited from dict
RdPop ==
    /\ \E key \in RdKeys :
         IF HasKey(rdict, key)
         THEN /\ RdDone("pop", key, "None", "none", DictGet(rdict, key))
              /\ rdict' = { kv \in rdict : kv[1] # key }
         ELSE /\ RdDone("pop", key, "None", "KeyError", "None")
              /\ rdict' = rdict
    /\ UNCHANGED items
    /\ UNCHANGED sigvars
    /\ UNCHANGED bsvars
    /\ UNCHANGED extvars

\* d.clear(): inherited from dict
RdClear ==
    /\ RdDone("clear", "None", "None", "none", "None")
    /\ rdict' = {}
    /\ UNCHANGED items
    /\ UNCHANGED sigvars
    /\ UNCHANGED bsvars
    /\ UNCHANGED extvars

InitRD ==
    /\ rdict \in RdConstructions
    /\ calling = NoCall
    /\ ret = NoRet
    /\ items = <<>>
    /\ SigIdle
    /\ BsIdle
    /\ ExtIdle

NextRD == RdSetItem \/ RdUpdate \/ RdSetDefault \/ RdDelItem \/ RdPop \/ RdClear

SpecRD == InitRD /\ [][NextRD]_vars

\* C19: assigning an item of a readonly_dict (an existing key or a new one)
\* raises ConstantError, the class of jsnake.errors that the test expects,
\* and leaves the contents of the dictionary unchanged.
C19_SetItemRaisesErrorsConstantError ==
    [][calling'.fn = "setitem" =>
         /\ IsInstance(ret'.exc, "jsnake.errors.ConstantError")
         /\ rdict' = rdict]_vars

\* C20: every dictionary operation after construction (item assignment,
\* update, setdefault, deletion, pop, clear) leaves the keys and values of a
\* readonly_dict as they were, so they stay those it was constructed with.
C20_ContentsNeverChange ==
    [][calling'.fn \in {"setitem", "update", "setdefault", "delitem", "pop", "clear"}
         => rdict' = rdict]_vars

(***************************************************************************)
(* jsnake/logging.py: init, add_handler and get_logger over the module     *)
(* globals _initialized, _rootLogger, _cache and DEFAULT_LEVEL.  A string  *)
(* is a sequence of characters.  A logger of Python's logging module is    *)
(* known by its name (logging.getLogger returns the same object for the    *)
(* same name); loggers holds, per name, the level and the handlers.        *)
(***************************************************************************)
\* at most MaxLogCalls calls change the loggers: calls of init, get_logger calls
\* that create a logger and add_handler calls that add a handler
MaxLogCalls == 3

\* str.split("."): the parts between the dots
RECURSIVE SplitFrom(_, _, _)
SplitFrom(s, i, part) ==
    IF i > Len(s) THEN <<part>>
    ELSE IF s[i] = "." THEN <<part>> \o SplitFrom(s, i + 1, <<>>)
    ELSE SplitFrom(s, i + 1, Append(part, s[i]))

\* ".".join(parts)
RECURSIVE Join(_)
Join(parts) ==
    IF Len(parts) = 0 THEN <<>>
    ELSE IF Len(parts) = 1 THEN parts[1]
    ELSE parts[1] \o <<".">> \o Join(Tail(parts))

\* Level, lines 29-36, and Level(int(level)) of lines 61-62
\* _get_default_level, lines 51-72, on the value of the environment variable
GetDefaultLevel(env) ==
    LET LevelOfNumber ==
          {<<"10", "DEBUG">>, <<"20", "INFO">>, <<"30", "WARN">>,
           <<"40", "ERROR">>, <<"50", "CRITICAL">>}
    IN IF env = "None" THEN "INFO"
       ELSE IF \E p \in LevelOfNumber : p[1] = env THEN DictGet(LevelOfNumber, env)
       ELSE IF env \in {"DEBUG", "INFO", "WARN", "ERROR", "CRITICAL"} THEN env
       ELSE "INFO"

\* a handler: its class, its level, and the function that added it
Handler(kind, level, by) == [kind |-> kind, level |-> level, by |-> by]

\* logging.getLogger(name): the logger of that name, made when there is
\* none with the level NOTSET and no handler
GetLogger(reg, nm) ==
    IF \E p \in reg : p[1] = nm THEN DictGet(reg, nm)
    ELSE [level |-> "NOTSET", handlers |-> <<>>]

NotInitializedNever(flag) == FALSE

\* lines 144 and 208: if not _initialized
NotInitialized(flag) == ~flag

\* add_handler(logger, kind, **kw), lines 144-163, on the module state st;
\* by names the caller
AddHandler(st, nm, kind, kw, by) ==
    IF NotInitialized(st.initialized) THEN [st EXCEPT !.exc = "LoggingError"]
    ELSE IF kind = "file" /\ ~\E p \in kw : p[1] = "file"
    THEN [st EXCEPT !.exc = "KeyError"]
    ELSE IF kind \notin {"stream", "file", "null"}
    THEN [st EXCEPT !.exc = "LoggingError"]
    ELSE LET l == GetLogger(st.loggers, nm)
             hdl == Handler(kind, IF kind = "null" THEN l.level ELSE "NOTSET", by)
         IN [st EXCEPT !.loggers =
                DictUpdate(@, {<<nm, [l EXCEPT !.handlers = Append(@, hdl)]>>})]

\* init(name, envprefix), lines 98-108, env being the value of X_LEVEL
LogInitEffect(st, nm, env) ==
    LET st1 == [st EXCEPT !.DEFAULT_LEVEL = GetDefaultLevel(env),
                          !.initialized = TRUE,
                          !.rootLogger = nm,
                          !.loggers = DictUpdate(@, {<<nm, GetLogger(@, nm)>>})]
    IN AddHandler(st1, nm, "null", {}, "init")

\* lines 212-225: the full name get_logger looks up
ResolveName(nm, root_name) ==
    LET parts == SplitFrom(nm, 1, <<>>)
        parts1 == IF parts[1] \notin {<<>>, root_name}
                  THEN <<root_name>> \o parts ELSE parts
        parts2 == IF parts1[1] = <<>>
                  THEN [parts1 EXCEPT ![1] = root_name] ELSE parts1
    IN Join(parts2)

InCacheNever(c, nm) == FALSE

\* line 228: name in _cache
InCache(c, nm) == \E p \in c : p[1] = nm

\* get_logger(name, level, stream), lines 206-246
GetLoggerEffect(st, nm, level, stream) ==
    IF NotInitialized(st.initialized) THEN [st EXCEPT !.exc = "LoggingError"]
    ELSE LET parts == SplitFrom(nm, 1, <<>>) IN
      IF parts[1] = <<>> /\ Len(parts) = 1
      THEN [st EXCEPT !.value = st.rootLogger]
      ELSE LET full == ResolveName(nm, st.rootLogger) IN
        IF InCache(st.cache, full)
        THEN [st EXCEPT !.value = DictGet(st.cache, full)]
        ELSE LET lv == IF level = "None" THEN st.DEFAULT_LEVEL ELSE level
                 l == [GetLogger(st.loggers, full) EXCEPT !.level = lv]
                 st1 == [st EXCEPT !.loggers = DictUpdate(@, {<<full, l>>})]
                 st2 == IF stream
                        THEN AddHandler(st1, full, "stream", {}, "get_logger")
                        ELSE st1
             IN IF st2.exc # "none" THEN st2
                ELSE [st2 EXCEPT !.cache = DictUpdate(@, {<<full, full>>}),
                                 !.value = full]

\* the module state a function works on
LogState ==
    [initialized |-> initialized, rootLogger |-> rootLogger, cache |-> cache,
     DEFAULT_LEVEL |-> DEFAULT_LEVEL, loggers |-> loggers,
     exc |-> "none", value |-> <<>>]

LogDone(call, st) ==
    /\ calling' = call
    /\ ret' = [exc |-> st.exc, value |-> st.value]
    /\ initialized' = st.initialized
    /\ rootLogger' = st.rootLogger
    /\ cache' = st.cache
    /\ DEFAULT_LEVEL' = st.DEFAULT_LEVEL
    /\ loggers' = st.loggers

\* the number of calls made so far that changed the loggers: the handlers
\* added by init and by the client, and the loggers get_logger cached
LogCalls ==
    LET HandlersBy(by) ==
          Cardinality({ x \in UNION { { <<p[1], i>> : i \in 1..Len(p[2].handlers) } :
                                       p \in loggers } :
                          DictGet(loggers, x[1]).handlers[x[2]].by = by })
    IN HandlersBy("init") + HandlersBy("client") + Cardinality(cache)

LogInit ==
    /\ \E nm \in { <<"a">>, <<"b">> }, env \in {"None", "40"} :
         /\ LogCalls < MaxLogCalls
         /\ LogDone([fn |-> "init", name |-> nm, env |-> env],
                    LogInitEffect(LogState, nm, env))
    /\ UNCHANGED <<rdict, items>>
    /\ UNCHANGED sigvars
    /\ UNCHANGED bsvars
    /\ UNCHANGED <<dlg, trace, dpc>>
    /\ UNCHANGED <<widget, ctx, ipc>>

\* the loggers a client hands to add_handler are those it got from get_logger
\* and one it took from logging.getLogger itself
LogAddHandler ==
    /\ \E nm \in { p[2] : p \in cache } \cup {<<"x">>},
          in \in { <<"stream", {}>>, <<"null", {}>>,
                   <<"file", {<<"file", "log.txt">>}>>, <<"bogus", {}>> } :
         /\ LogCalls < MaxLogCalls
         /\ LogDone([fn |-> "add_handler", name |-> nm, kind |-> in[1], kw |-> in[2]],
                    AddHandler(LogState, nm, in[1], in[2], "client"))
    /\ UNCHANGED <<rdict, items>>
    /\ UNCHANGED sigvars
    /\ UNCHANGED bsvars
    /\ UNCHANGED <<dlg, trace, dpc>>
    /\ UNCHANGED <<widget, ctx, ipc>>

LogGetLogger ==
    /\ \E nm \in { <<>>, <<"f">>, <<".", "f">>, <<"a", ".", "f">>, <<"a">> },
          level \in {"None", "DEBUG"}, stream \in BOOLEAN :
         /\ initialized =>
              \/ LogCalls < MaxLogCalls
              \/ nm = <<>>
              \/ InCache(cache, ResolveName(nm, rootLogger))
         /\ LogDone([fn |-> "get_logger", name |-> nm, level |-> level,
                     stream |-> stream],
                    GetLoggerEffect(LogState, nm, level, stream))
    /\ UNCHANGED <<rdict, items>>
    /\ UNCHANGED sigvars
    /\ UNCHANGED bsvars
    /\ UNCHANGED <<dlg, trace, dpc>>
    /\ UNCHANGED <<widget, ctx, ipc>>

InitLog ==
    /\ ExtIdle
    /\ AuxIdle
    /\ SigIdle
    /\ BsIdle

NextLog == LogInit \/ LogAddHandler \/ LogGetLogger

SpecLog == InitLog /\ [][NextLog]_vars

\* C21: while init has not been called, get_logger and add_handler raise
\* LoggingError, and such a call creates and caches no logger and adds no
\* handler.
C21_InitMustComeFirst ==
    [][(~initialized /\ calling'.fn \in {"get_logger", "add_handler"}) =>
         /\ ret'.exc = "LoggingError"
         /\ ~initialized'
         /\ cache' = cache
         /\ loggers' = loggers]_vars

C21_Witness ==
    /\ ~initialized
    /\ calling.fn = "get_logger"
    /\ calling.name = <<"f">>
    /\ ret.exc = "LoggingError"
    /\ cache = {}
    /\ loggers = {}

\* the number of stream handlers get_logger added to the logger l
StreamsByGetLogger(l) ==
    Cardinality({ i \in 1..Len(l.handlers) :
                    l.handlers[i].kind = "stream" /\ l.handlers[i].by = "get_logger" })

\* C22: after init, a get_logger call for a name that is not cached creates the
\* logger and caches it; a call for a cached name returns the cached logger
\* and changes neither level nor handlers; the cache never loses or changes an
\* entry; so no logger carries more than one stream handler added by
\* get_logger.
C22_CreatedOnceThenCached ==
    /\ [][(initialized /\ calling'.fn = "get_logger" /\ calling'.name # <<>>) =>
            LET full == ResolveName(calling'.name, rootLogger) IN
              IF \E p \in cache : p[1] = full
              THEN /\ ret'.exc = "none"
                   /\ ret'.value = DictGet(cache, full)
                   /\ loggers' = loggers
                   /\ cache' = cache
              ELSE /\ ret'.exc = "none"
                   /\ ret'.value = full
                   /\ cache' = cache \cup {<<full, full>>}
                   /\ DictGet(loggers', full).level =
                        (IF calling'.level = "None" THEN DEFAULT_LEVEL
                         ELSE calling'.level)
                   /\ StreamsByGetLogger(DictGet(loggers', full)) =
                        (IF calling'.stream THEN 1 ELSE 0)]_vars
    /\ [][cache \subseteq cache']_vars
    /\ [](\A p \in loggers : StreamsByGetLogger(p[2]) <= 1)

C22_Witness ==
    /\ initialized
    /\ rootLogger = <<"a">>
    /\ calling.fn = "get_logger"
    /\ calling.name = <<"f">>
    /\ calling.level = "DEBUG"
    /\ calling.stream
    /\ ret.exc = "none"
    /\ ret.value = <<"a", ".", "f">>
    /\ DictGet(loggers, ret.value).level = "INFO"
    /\ DictGet(loggers, ret.value).handlers = <<Handler("stream", "NOTSET", "get_logger")>>

\* whether nm begins with the root name and a dot
IsDescendantName(nm, root_name) ==
    /\ Len(nm) > Len(root_name)
    /\ SubSeq(nm, 1, Len(root_name) + 1) = root_name \o <<".">>

\* C23: get_logger("") returns the root logger and changes nothing; every
\* other name gives a logger whose name begins with the root name and a dot,
\* and "f", ".f" and "<root>.f" give the same logger.
C23_EveryNameBelowRoot ==
    [][(initialized /\ calling'.fn = "get_logger") =>
         IF calling'.name = <<>>
         THEN /\ ret'.value = rootLogger
              /\ loggers' = loggers
              /\ cache' = cache
         ELSE /\ ret'.exc = "none"
              /\ IsDescendantName(ret'.value, rootLogger)
              /\ calling'.name \in {<<"f">>, <<".", "f">>, rootLogger \o <<".", "f">>}
                   => ret'.value = rootLogger \o <<".", "f">>]_vars

(***************************************************************************)
(* ExDialog, interface/dialog.py 26-158: the OK and Cancel buttons of a    *)
(* dialog that is on the screen.  calling holds what the validate and      *)
(* apply methods of the subclass do; trace lists the methods run, each     *)
(* with whether the window existed when it ran.                            *)
(***************************************************************************)
\* the buttons are pressed at most MaxPresses times
MaxPresses == 2

\* a method run on the dialog: its name and whether the window exists
DlgEvent(op) == [op |-> op, alive |-> dlg.alive]

\* the OK button, <Return>: ExDialog.ok is entered, line 114
DlgPressOk ==
    /\ dpc = "shown"
    /\ Cardinality({ i \in 1..Len(trace) : trace[i].op \in {"ok", "cancel"} })
         < MaxPresses
    /\ trace' = Append(trace, DlgEvent("ok"))
    /\ dpc' = "validate"
    /\ UNCHANGED <<dlg, calling, ret, rdict, items>>
    /\ UNCHANGED sigvars
    /\ UNCHANGED bsvars
    /\ UNCHANGED <<initialized, rootLogger, cache, DEFAULT_LEVEL, loggers>>
    /\ UNCHANGED <<widget, ctx, ipc>>

\* the Cancel button, <Escape>, WM_DELETE_WINDOW: ExDialog.cancel is entered,
\* line 144
DlgPressCancel ==
    /\ dpc = "shown"
    /\ Cardinality({ i \in 1..Len(trace) : trace[i].op \in {"ok", "cancel"} })
         < MaxPresses
    /\ trace' = Append(trace, DlgEvent("cancel"))
    /\ dpc' = "cancel"
    /\ UNCHANGED <<dlg, calling, ret, rdict, items>>
    /\ UNCHANGED sigvars
    /\ UNCHANGED bsvars
    /\ UNCHANGED <<initialized, rootLogger, cache, DEFAULT_LEVEL, loggers>>
    /\ UNCHANGED <<widget, ctx, ipc>>

\* line 116: self.validate()
DlgValidate ==
    /\ dpc = "validate"
    /\ trace' = Append(trace, DlgEvent("validate"))
    /\ dpc' = CASE calling.validate = "True" -> "withdraw"
                [] calling.validate = "False" -> "refocus"
                [] OTHER -> "shown"
    /\ ret' = [exc |-> IF calling.validate = "raise" THEN "RuntimeError" ELSE "none"]
    /\ UNCHANGED <<dlg, calling, rdict, items>>
    /\ UNCHANGED sigvars
    /\ UNCHANGED bsvars
    /\ UNCHANGED <<initialized, rootLogger, cache, DEFAULT_LEVEL, loggers>>
    /\ UNCHANGED <<widget, ctx, ipc>>

\* lines 117-118: the focus goes back to the initial widget and ok returns
DlgRefocus ==
    /\ dpc = "refocus"
    /\ trace' = Append(trace, DlgEvent("focus_set"))
    /\ dlg' = [dlg EXCEPT !.focus = dlg.initial_focus]
    /\ dpc' = "shown"
    /\ UNCHANGED <<calling, ret, rdict, items>>
    /\ UNCHANGED sigvars
    /\ UNCHANGED bsvars
    /\ UNCHANGED <<initialized, rootLogger, cache, DEFAULT_LEVEL, loggers>>
    /\ UNCHANGED <<widget, ctx, ipc>>

\* lines 120-121: self.withdraw(); self.update_idletasks()
DlgWithdraw ==
    /\ dpc = "withdraw"
    /\ trace' = Append(trace, DlgEvent("withdraw"))
    /\ dlg' = [dlg EXCEPT !.withdrawn = TRUE]
    /\ dpc' = "apply"
    /\ UNCHANGED <<calling, ret, rdict, items>>
    /\ UNCHANGED sigvars
    /\ UNCHANGED bsvars
    /\ UNCHANGED <<initialized, rootLogger, cache, DEFAULT_LEVEL, loggers>>
    /\ UNCHANGED <<widget, ctx, ipc>>

\* lines 123-126: self.apply() inside try; the finally clause comes next
\* whether apply returned or raised
DlgApply ==
    /\ dpc = "apply"
    /\ trace' = Append(trace, DlgEvent("apply"))
    /\ ret' = [exc |-> IF calling.apply = "raise" THEN "RuntimeError" ELSE "none"]
    /\ dpc' = "cancel"
    /\ UNCHANGED <<dlg, calling, rdict, items>>
    /\ UNCHANGED sigvars
    /\ UNCHANGED bsvars
    /\ UNCHANGED <<initialized, rootLogger, cache, DEFAULT_LEVEL, loggers>>
    /\ UNCHANGED <<widget, ctx, ipc>>

\* lines 147-148: the focus goes to the parent when there is one
DlgCancel ==
    /\ dpc = "cancel"
    /\ IF dlg.parent # "None"
       THEN /\ trace' = Append(trace, DlgEvent("parent.focus_set"))
            /\ dlg' = [dlg EXCEPT !.focus = dlg.parent]
       ELSE UNCHANGED <<trace, dlg>>
    /\ dpc' = "destroy"
    /\ UNCHANGED <<calling, ret, rdict, items>>
    /\ UNCHANGED sigvars
    /\ UNCHANGED bsvars
    /\ UNCHANGED <<initialized, rootLogger, cache, DEFAULT_LEVEL, loggers>>
    /\ UNCHANGED <<widget, ctx, ipc>>

\* line 149 and ExDialog.destroy, lines 72-76
DlgDestroy ==
    /\ dpc = "destroy"
    /\ trace' = Append(trace, DlgEvent("destroy"))
    /\ dlg' = [dlg EXCEPT !.initial_focus = "None", !.alive = FALSE]
    /\ dpc' = "destroyed"
    /\ UNCHANGED <<calling, ret, rdict, items>>
    /\ UNCHANGED sigvars
    /\ UNCHANGED bsvars
    /\ UNCHANGED <<initialized, rootLogger, cache, DEFAULT_LEVEL, loggers>>
    /\ UNCHANGED <<widget, ctx, ipc>>

\* the dialog after __init__ (with _parallel true), lines 29-70: on the
\* screen, the focus on the initial widget, which is what body() returned: a
\* widget, or None for the dialog itself (line 55)
InitDlg ==
    /\ \E parent \in {"None", "root"}, w \in {"self", "entry"} :
         dlg = [parent |-> parent, initial_focus |-> w, alive |-> TRUE,
                withdrawn |-> FALSE, focus |-> w]
    /\ trace = <<>>
    /\ dpc = "shown"
    /\ calling \in { [fn |-> "ExDialog", validate |-> v, apply |-> a] :
                       v \in {"True", "False", "raise"}, a \in {"return", "raise"} }
    /\ ret = NoRet
    /\ rdict = {}
    /\ items = <<>>
    /\ initialized = FALSE
    /\ rootLogger = <<>>
    /\ cache = {}
    /\ DEFAULT_LEVEL = "INFO"
    /\ loggers = {}
    /\ widget = "normal"
    /\ ctx = [state_spec |-> "None", old_state |-> "None"]
    /\ ipc = "idle"
    /\ SigIdle
    /\ BsIdle

NextDlg ==
    \/ DlgPressOk
    \/ DlgPressCancel
    \/ DlgValidate
    \/ DlgRefocus
    \/ DlgWithdraw
    \/ DlgApply
    \/ DlgCancel
    \/ DlgDestroy

SpecDlg == InitDlg /\ [][NextDlg]_vars

\* C24: validate() runs while the dialog still exists, and apply() runs after
\* the dialog has been destroyed.
C24_ApplyAfterDestroy ==
    \A i \in 1..Len(trace) :
      /\ trace[i].op = "validate" => trace[i].alive
      /\ trace[i].op = "apply" => ~trace[i].alive

(***************************************************************************)
(* InState, interface/__init__.py 324-369.  The owner is a Tk widget,      *)
(* whose state is the string of its state option, or a Ttk widget, whose   *)
(* state is a set of flags.  A state spec is a string for the former and a *)
(* tuple of flags, each plain or negated with "!", for the latter.         *)
(***************************************************************************)
StrSpec(str) == [str |-> str, tuple |-> <<>>]
TupleSpec(tuple) == [str |-> "", tuple |-> tuple]
Flag(nm) == [neg |-> FALSE, name |-> nm]
NotFlag(nm) == [neg |-> TRUE, name |-> nm]

\* InState.__init__, lines 337-363: old_state is worked out from state_spec
InStateNew(state_spec) ==
    [state_spec |-> state_spec,
     old_state |->
       IF state_spec.str \in {"normal", "disabled"}
       THEN StrSpec(IF state_spec.str = "disabled" THEN "normal" ELSE "disabled")
       \* lines 358-361: f"!{st}" if not st.startswith("!") else st[1:]
       ELSE TupleSpec([i \in 1..Len(state_spec.tuple) |->
                         [state_spec.tuple[i] EXCEPT !.neg = ~@]])]

\* ttk.Widget.state(flags): the flags are set or cleared from left to right
RECURSIVE ApplyFlags(_, _)
ApplyFlags(flags, tuple) ==
    IF Len(tuple) = 0 THEN flags
    ELSE ApplyFlags(IF tuple[1].neg THEN flags \ {tuple[1].name}
                    ELSE flags \cup {tuple[1].name},
                    Tail(tuple))

\* owner.state(state_spec): _StateMethods.state, lines 236-249, for a Tk
\* widget, ttk.Widget.state for a Ttk widget
OwnerState(w, state_spec) ==
    IF w.kind = "tk" THEN [w EXCEPT !.state = state_spec.str]
    ELSE [w EXCEPT !.flags = ApplyFlags(@, state_spec.tuple)]


\* InState(owner, state_spec), lines 337-363
InsNew ==
    /\ ipc = "start"
    /\ ctx' = InStateNew(calling.state_spec)
    /\ ipc' = "made"
    /\ UNCHANGED <<widget, calling, ret, rdict, items>>
    /\ UNCHANGED sigvars
    /\ UNCHANGED bsvars
    /\ UNCHANGED <<initialized, rootLogger, cache, DEFAULT_LEVEL, loggers>>
    /\ UNCHANGED <<dlg, trace, dpc>>

\* __enter__, lines 365-366
InsEnter ==
    /\ ipc = "made"
    /\ widget' = OwnerState(widget, ctx.state_spec)
    /\ ipc' = "in"
    /\ UNCHANGED <<ctx, calling, ret, rdict, items>>
    /\ UNCHANGED sigvars
    /\ UNCHANGED bsvars
    /\ UNCHANGED <<initialized, rootLogger, cache, DEFAULT_LEVEL, loggers>>
    /\ UNCHANGED <<dlg, trace, dpc>>

\* __exit__, lines 368-369, after a block that returned or raised; __exit__
\* returns None, so what the block raised is raised again
InsExit ==
    /\ ipc = "in"
    /\ widget' = OwnerState(widget, ctx.old_state)
    /\ ret' = [exc |-> IF calling.body = "raise" THEN "RuntimeError" ELSE "none"]
    /\ ipc' = "out"
    /\ UNCHANGED <<ctx, calling, rdict, items>>
    /\ UNCHANGED sigvars
    /\ UNCHANGED bsvars
    /\ UNCHANGED <<initialized, rootLogger, cache, DEFAULT_LEVEL, loggers>>
    /\ UNCHANGED <<dlg, trace, dpc>>

\* a widget in any of its states, and a with statement about to run on it;
\* calling.entry keeps the state the owner has at that moment
InitIns ==
    /\ widget \in { [kind |-> "tk", state |-> st, flags |-> {}] : st \in {"normal", "disabled"} }
                    \cup { [kind |-> "ttk", state |-> "", flags |-> f] :
                             f \in SUBSET {"disabled", "readonly"} }
    /\ calling \in { [fn |-> "InState", state_spec |-> sp, body |-> b, entry |-> widget] :
                       sp \in IF widget.kind = "tk"
                              THEN { StrSpec(st) : st \in {"normal", "disabled"} }
                              ELSE { TupleSpec(t) : t \in
                                    { <<Flag("disabled")>>, <<NotFlag("disabled")>>, <<Flag("readonly")>>,
                                      <<NotFlag("disabled"), Flag("readonly")>>,
                                      <<Flag("disabled"), NotFlag("readonly")>> } },
                       b \in {"pass", "raise"} }
    /\ ctx = [state_spec |-> "None", old_state |-> "None"]
    /\ ipc = "start"
    /\ ret = NoRet
    /\ rdict = {}
    /\ items = <<>>
    /\ initialized = FALSE
    /\ rootLogger = <<>>
    /\ cache = {}
    /\ DEFAULT_LEVEL = "INFO"
    /\ loggers = {}
    /\ dlg = [parent |-> "None", initial_focus |-> "None", alive |-> FALSE,
              withdrawn |-> FALSE, focus |-> "None"]
    /\ trace = <<>>
    /\ dpc = "idle"
    /\ SigIdle
    /\ BsIdle

NextIns == InsNew \/ InsEnter \/ InsExit

SpecIns == InitIns /\ [][NextIns]_vars

\* whether the widget w is in the state the spec asks for
InStateSpec(w, state_spec) ==
    IF w.kind = "tk" THEN w.state = state_spec.str
    ELSE \A i \in 1..Len(state_spec.tuple) :
           (state_spec.tuple[i].name \in w.flags) = ~state_spec.tuple[i].neg

\* C25: inside the with-block the owner is in state_spec, and after the block
\* the owner is in the state it had when the block was entered, whatever
\* that state was.
C25_StateRestoredAfterBlock ==
    /\ ipc = "in" => InStateSpec(widget, calling.state_spec)
    /\ ipc = "out" => widget = calling.entry

(***************************************************************************)
(* binary_search run to its end: every step that can be taken is taken.    *)
(***************************************************************************)
SpecBSLive == InitBS /\ [][NextBS]_vars /\ WF_vars(NextBS)

\* C26: binary_search terminates; no array access is out of bounds; while the
\* loop runs 0 <= low <= high <= len(array)-1; an iteration that stays in the
\* loop strictly shrinks the window; -1 is returned from the loop only when
\* the window holds at most two elements and neither boundary element is the
\* pattern.
C26_TerminatesWithinBounds ==
    /\ [](pc # "IndexError")
    /\ [](pc = "loop" => (0 <= low /\ low <= high /\ high <= Len(array) - 1))
    /\ [][(pc = "loop" /\ pc' = "loop") => (high' - low' < high - low)]_vars
    /\ [][(pc = "loop" /\ pc' = "done" /\ res' = -1) =>
            /\ high - low <= 1
            /\ At(array, low) # pattern
            /\ At(array, high) # pattern]_vars
    /\ <>(pc = "done")

C26_Witness ==
    /\ pc = "done"
    /\ res = -1
    /\ Len(array) >= 5
    /\ low >= 2
    /\ high - low = 1

(***************************************************************************)
(* Properties of repeated registrations and of the signal across emit      *)
(***************************************************************************)
\* the indices of the entries of list that disconnect(s, *binds, **kw) matches
MatchingEntries(list, s, binds, kw) ==
    { i \in 1..Len(list) : Matches(list[i], s, binds, kw) }

\* the least element of a non-empty set of indices
Least(S) == CHOOSE i \in S : \A j \in S : i <= j

\* a disconnect of a registration made k > 1 times removes the earliest of
\* them and keeps every other entry in place
RemovesEarliestOfSeveral ==
    (/\ result'.op = "disconnect"
     /\ Cardinality(MatchingEntries(observers, result'.fn, result'.args, result'.kw)) > 1)
      => /\ result'.exc = "none"
         /\ observers' =
              RemoveAt(observers,
                       Least(MatchingEntries(observers, result'.fn, result'.args,
                                             result'.kw)))

\* the invocations of the emit just made that went to the registrations the
\* preceding disconnect was about
CallsToDisconnected ==
    { j \in 1..Len(result'.calls) :
        Matches(observers[result'.calls[j].idx], result.fn, result.args, result.kw) }

\* C27 as stated: with k > 1 equal registrations, one disconnect removes the
\* earliest and keeps the others in order, and the emit that follows invokes
\* the subscriber k-1 times.
C27_DuplicateStillInvoked ==
    [][ /\ RemovesEarliestOfSeveral
        /\ (/\ result.op = "disconnect"
            /\ result.exc = "none"
            /\ result'.op = "emit"
            /\ MatchingEntries(observers, result.fn, result.args, result.kw) # {})
             => Cardinality(CallsToDisconnected) =
                  Cardinality(MatchingEntries(observers, result.fn, result.args,
                                              result.kw)) ]_vars

\* C27 amended: the same, the emit that follows invoking the subscriber once
\* for each of the k-1 remaining registrations up to and including the first
\* registration whose notification raises; an object that is neither callable
\* nor has on_notify is not invoked at all.
C27_DuplicateInvokedUntilRaise ==
    [][ /\ RemovesEarliestOfSeveral
        /\ (/\ result.op = "disconnect"
            /\ result.exc = "none"
            /\ result'.op = "emit"
            /\ MatchingEntries(observers, result.fn, result.args, result.kw) # {})
             => Cardinality(CallsToDisconnected) =
                  Cardinality({ i \in MatchingEntries(observers, result.fn,
                                                      result.args, result.kw) :
                                  /\ i <= LastNotified
                                  /\ \/ observers[i].bind
                                     \/ HasOnNotify(observers[i].fn) }) ]_vars

\* C27 witness: two equal registrations of the recorder are left by a
\* disconnect that returned, so three were there before it
C27_Witness ==
    /\ result.op = "disconnect"
    /\ result.exc = "none"
    /\ result.fn = "record"
    /\ Len(observers) = 2
    /\ observers[1] = observers[2]
    /\ Matches(observers[1], result.fn, result.args, result.kw)

\* C28: emit leaves the subscriber list (subscribers, bound arguments,
\* order), the count, the name and the owner as they were, and two emits in
\* succession with the same arguments make the same invocations.
C28_EmitLeavesSignalUnchanged ==
    [][ /\ result'.op = "emit" =>
             /\ observers' = observers
             /\ observer_count' = observer_count
             /\ name' = name
             /\ obj' = obj
        /\ (/\ result.op = "emit"
            /\ result'.op = "emit"
            /\ result'.args = result.args
            /\ result'.kw = result.kw)
             => /\ result'.calls = result.calls
                /\ result'.exc = result.exc ]_vars

C28_Witness ==
    /\ result.op = "emit"
    /\ result.args = <<"dog">>
    /\ Len(observers) = 3
    /\ observers[1].args = <<"b1">>
    /\ observer_count = 3
    /\ Len(result.calls) = 3

(***************************************************************************)
(* The signal with a subscriber that disconnects itself while emit is      *)
(* delivering to it.  The for loop of emit (line 136) walks the list it is *)
(* given by position, so it sees what disconnect does to the list.         *)
(***************************************************************************)
ReConnect ==
    /\ Len(observers) < MaxObservers
    /\ \E s \in {"quitter", "record", "noop", "watcher"} :
         LET e == ConnectEffect(observers, observer_count, s, NoArgs, NoKw) IN
           /\ observers' = e.observers
           /\ observer_count' = e.observer_count
           /\ result' = Outcome("connect", s, NoArgs, NoKw, e.exc, <<>>)
    /\ UNCHANGED <<name, obj, data>>
    /\ UNCHANGED bsvars
    /\ UNCHANGED auxvars
    /\ UNCHANGED extvars

ReDisconnect ==
    /\ \E s \in {"quitter", "record", "noop", "watcher"} :
         LET e == DisconnectEffect(observers, observer_count, s, NoArgs, NoKw) IN
           /\ observers' = e.observers
           /\ observer_count' = e.observer_count
           /\ result' = Outcome("disconnect", s, NoArgs, NoKw, e.exc, <<>>)
    /\ UNCHANGED <<name, obj, data>>
    /\ UNCHANGED bsvars
    /\ UNCHANGED auxvars
    /\ UNCHANGED extvars

ReEmit ==
    /\ \E in \in EmitInputs :
         LET e == EmitEffect(name, obj, observers, observer_count, data, in[1], in[2]) IN
           /\ name' = e.name
           /\ obj' = e.obj
           /\ observers' = e.observers
           /\ observer_count' = e.observer_count
           /\ data' = e.data
           /\ result' = Outcome("emit", "", in[1], in[2], e.exc, e.calls)
    /\ UNCHANGED bsvars
    /\ UNCHANGED auxvars
    /\ UNCHANGED extvars

NextRe == ReConnect \/ ReDisconnect \/ ReEmit

SpecRe == Init /\ [][NextRe]_vars

\* C29: when a subscriber disconnects itself while emit delivers to it, every
\* other subscriber registered when emit was called is notified exactly once
\* per registration in that emission.
C29_OthersStillNotified ==
    [][(/\ result'.op = "emit"
        /\ \E i \in 1..Len(observers) : observers[i].fn = "quitter")
         => \A s \in {"record", "noop", "watcher"} :
              Cardinality({ j \in 1..Len(result'.calls) : result'.calls[j].target = s })
                = Registrations(observers, s)]_vars

(***************************************************************************)
(* Filesize: a string is parsed by from_string and the number of bytes of  *)
(* the object is given back to from_value.  ret keeps the object parsed    *)
(* (first) next to the one from_value makes of its raw_byte_size (value).  *)
(***************************************************************************)
\* str(n) for a whole number n >= 0
RECURSIVE ToDecimal(_)
ToDecimal(n) ==
    IF n < 10 THEN <<Digits[n + 1]>>
    ELSE ToDecimal(n \div 10) \o <<Digits[(n % 10) + 1]>>

RtFromString ==
    /\ calling.fn = "roundtrip"
    /\ ret.exc = "pending"
    /\ LET r == FromString(calling.string) IN
         ret' = [exc |-> IF r.exc = "none" THEN "parsed" ELSE r.exc,
                 first |-> r.value, value |-> NoFilesize]
    /\ UNCHANGED <<calling, rdict, items>>
    /\ UNCHANGED sigvars
    /\ UNCHANGED bsvars
    /\ UNCHANGED extvars

RtFromValue ==
    /\ calling.fn = "roundtrip"
    /\ ret.exc = "parsed"
    /\ LET r == FromValue(ret.first.raw_byte_size, FALSE) IN
         ret' = [exc |-> r.exc, first |-> ret.first, value |-> r.value]
    /\ UNCHANGED <<calling, rdict, items>>
    /\ UNCHANGED sigvars
    /\ UNCHANGED bsvars
    /\ UNCHANGED extvars

\* the strings "N unit", for the whole numbers N from 1 up to, not
\* including, the 1024.0 of line 145
InitRT ==
    /\ calling \in { [fn |-> "roundtrip", string |-> s] : s \in
                      { ToDecimal(n) \o <<" ">> \o Units[k] :
                          n \in 1..(Pow1024(1) - 1), k \in 1..Len(Units) } }
    /\ ret = [exc |-> "pending"]
    /\ rdict = {}
    /\ items = <<>>
    /\ SigIdle
    /\ BsIdle
    /\ ExtIdle

NextRT == RtFromString \/ RtFromValue

SpecRT == InitRT /\ [][NextRT]_vars

\* C30: for every whole number N from 1 to 1023 and every unit among b, kb,
\* mb, gb, from_string('N unit') succeeds, and from_value of its
\* raw_byte_size succeeds with the same size, unit and raw_byte_size.
C30_FilesizeRoundTrip ==
    /\ ret.exc \in {"pending", "parsed", "none"}
    /\ ret.exc = "none" =>
         /\ ret.value.size100 = ret.first.size100
         /\ ret.value.unit = ret.first.unit
         /\ ret.value.raw_byte_size = ret.first.raw_byte_size
         /\ calling.string =
              ToDecimal(ret.first.size100 \div 100) \o <<" ">> \o ret.first.unit

C30_Witness ==
    /\ calling.string = <<"1", "0", "2", "3", " ", "g", "b">>
    /\ ret.exc = "none"
    /\ ret.value.unit = <<"g", "b">>
    /\ ret.value.size100 = 102300
    /\ ret.value.raw_byte_size = Bytes(1023, 3)

====
